---- MODULE Spec2Model ----
(***************************************************************************)
(* USIG (Unique Sequential Identifier Generator): a signing service that   *)
(* binds a monotonically increasing counter to every signed message.       *)
(* Three backends are modelled: the MAC backend (hmac.rs), the signature   *)
(* backend (signature.rs) and the no-op backend (noop.rs).                 *)
(*                                                                         *)
(* The cryptographic primitives are ideal: a MAC tag is the pair           *)
(* (key, data) it was computed from and a digital signature is the pair    *)
(* (signing key, data), so two artifacts are equal exactly when they were  *)
(* computed from the same key over the same bytes.                         *)
(***************************************************************************)
EXTENDS Integers, Sequences, FiniteSets, TLC

\* ---------------------------------------------------------------- bounds
\* Total number of sign calls explored (over all signers).
MaxSigns == 3

\* Number of values of one byte.  The build has 256; the model scales the
\* byte down so that the whole range of the counter is enumerable.
ByteRange == 2

\* Count arithmetic is explored on the MaxCount + 1 smallest and largest
\* values of a u64 and on addends up to MaxCount.
MaxCount == 2

\* ------------------------------------------------------------- constants
\* Width in bytes of u64::to_be_bytes.
CounterBytes == 8

\* The USIG instances of a run (usig_1, usig_2 of the conformance suite).
Usigs == {1, 2}

\* The instance whose verifier half is exercised.  No operation on one
\* instance touches the verifier half of another, so one is enough.
Verifiers == {1}

\* ReplicaId::from_u64(0) (= ReplicaId::FIRST) and ReplicaId::from_u64(1).
Ids == {0, 1}

\* MESSAGE_EMPTY and one non-empty message.
Messages == {<<>>, <<1>>}

\* Caller-provided MAC keys (Key = Box<[u8]>).
Keys == {<<0>>, <<1>>}

\* A key the MAC primitive refuses (InvalidLength): the empty key.
MalformedKeys == {<<>>}

\* The key lengths the MAC primitive M accepts in KeyInit::new_from_slice
\* (a fixed-key MAC accepts its key size only).
AcceptedKeyLengths == {1}

\* Key pairs of the signature scheme, named by an index.
KeyPairs == {1, 2}

Backends == {"hmac", "signature", "noop"}

VARIABLES
    backend,      \* which backend the instances of this run are built from
    sign_half,    \* sign_half[u]: the signer half of instance u
    verify_half,  \* verify_half[u]: the verifier half of instance u
    issued,       \* issued[u]: the envelopes sign returned on u, in order
    halves,       \* halves[u]: the (sign half, verify half) that split returned
                  \* on an instance constructed as u was, driven by the
                  \* same calls as u
    enrolled,     \* enrolled[v][id]: the instance whose attestation the last
                  \* accepted add_remote_party(id, _) on v carried
    ret           \* the last call and what it returned (val: on the composed
                  \* instance, half_val: on the split halves)

vars == <<backend, sign_half, verify_half, halves, issued, enrolled, ret>>

\* ------------------------------------------------------------ primitives
\* Number of values of a u64 (of CounterBytes bytes).
RECURSIVE Pow(_, _)
Pow(b, n) == IF n = 0 THEN 1 ELSE b * Pow(b, n - 1)

U64Range == Pow(ByteRange, CounterBytes)

\* Variant: only the low byte of the counter is encoded.
to_be_bytes_low(c) == <<c % ByteRange>>

\* u64::to_be_bytes: the fixed-width big-endian byte string of a counter.
to_be_bytes(c) ==
    [i \in 1..CounterBytes |-> (c \div Pow(ByteRange, CounterBytes - i)) % ByteRange]

\* --- Count (lib.rs): a tuple struct around a u64
Count(n) == <<n>>

\* impl Add<u64> for Count: Self(self.0 + rhs), on u64 (wrapping).
CountAdd(self, rhs) == Count((self[1] + rhs) % U64Range)

\* derive(PartialOrd, Ord, PartialEq, Eq): those of the one field.
CountLt(self, other) == self[1] < other[1]

CountEq(self, other) == self[1] = other[1]

\* impl Counter for Signature: Count(self.counter)
SignatureCounter(signature) == Count(signature.counter)

\* Variant: the increment applied twice.
AddAssignTwice(counter, rhs) == (counter + rhs + rhs) % U64Range

\* `self.counter += 1` on a u64 (wrapping, as in a release build).
AddAssign(counter, rhs) == (counter + rhs) % U64Range

\* HashMap::insert / HashMap::get / contains_key on a map id -> material.
EmptyMap == [id \in {} |-> 0]

MapInsert(map, id, value) == (id :> value) @@ map

MapContains(map, id) == id \in DOMAIN map

\* --- ideal keyed MAC (hmac::Mac): a context is the key and the bytes fed
MacNewFromSlice(key) ==
    IF Len(key) \in AcceptedKeyLengths
    THEN [ok |-> TRUE, val |-> [key |-> key, data |-> <<>>]]
    ELSE [ok |-> FALSE, err |-> "InvalidLength"]

MacUpdate(hmac, bytes) == [hmac EXCEPT !.data = @ \o bytes]

MacFinalize(hmac) == [key |-> hmac.key, data |-> hmac.data]

MacVerify(hmac, tag) == MacFinalize(hmac) = tag

\* --- ideal signature scheme (signature::Signer / signature::Verifier)
SigningKeyGenerate(kp) == [sk |-> kp]

VerifyingKey(private_key) == [vk |-> private_key.sk]

SignerSign(private_key, data) == [by |-> private_key.sk, data |-> data]

VerifierVerify(public_key, data, signature) ==
    signature.by = public_key.vk /\ signature.data = data

\* ----------------------------------------------------------- MAC backend
\* Variant: the key is stored without asking the MAC whether it accepts it.
UsigHmacSignHalfTryNewUnchecked(key) ==
    [ok |-> TRUE, val |-> [counter |-> 0, hmac |-> [key |-> key, data |-> <<>>],
                           key |-> key]]

UsigHmacSignHalfTryNew(key) ==
    LET hmac == MacNewFromSlice(key)
    IN  IF hmac.ok
        THEN [ok |-> TRUE, val |-> [counter |-> 0, hmac |-> hmac.val, key |-> key]]
        ELSE [ok |-> FALSE, err |-> "InvalidLength"]

\* Variant: the stored MAC context is fed instead of a clone of it.
UsigHmacSignHalfSignNoClone(self, message) ==
    LET counter == self.counter
        hmac1   == MacUpdate(self.hmac, to_be_bytes(counter))
        hmac2   == MacUpdate(hmac1, message)
    IN  [self |-> [self EXCEPT !.counter = AddAssign(self.counter, 1),
                               !.hmac = hmac2],
         val  |-> [counter |-> counter, signature |-> MacFinalize(hmac2)],
         as_ref |-> 1, err |-> "none"]

\* Returns the updated signer half, the envelope, the number of times
\* message.as_ref() was called and the error of the Result ("none": Ok).
UsigHmacSignHalfSign(self, message) ==
    LET counter == self.counter
        hmac1   == MacUpdate(self.hmac, to_be_bytes(counter))
        hmac2   == MacUpdate(hmac1, message)
    IN  [self |-> [self EXCEPT !.counter = AddAssign(self.counter, 1)],
         val  |-> [counter |-> counter, signature |-> MacFinalize(hmac2)],
         as_ref |-> 1, err |-> "none"]

\* Variant: the attestation is not the key the signer signs with.
UsigHmacSignHalfAttestOther(self) ==
    [self |-> self,
     val |-> [i \in 1..Len(self.key) |-> (self.key[i] + 1) % ByteRange],
     err |-> "none"]

\* Variant: attest consumes a counter value.
UsigHmacSignHalfAttestBump(self) ==
    [self |-> [self EXCEPT !.counter = AddAssign(self.counter, 1)], val |-> self.key,
     err |-> "none"]

\* attest takes &mut self: returns the signer half as the call leaves it
\* and the attestation.
UsigHmacSignHalfAttest(self) == [self |-> self, val |-> self.key, err |-> "none"]

UsigHmacVerifyHalfDefault == [other_hmacs |-> EmptyMap]

\* verify returns Ok (ok), or the error and, for UnknownId, the id it
\* carries; as_ref is the number of times message.as_ref() was called.

\* Variant: the message is not fed to the MAC.
UsigHmacVerifyHalfVerifyNoMessage(self, id, message, signature) ==
    IF MapContains(self.other_hmacs, id)
    THEN LET hmac1 == MacUpdate(self.other_hmacs[id], to_be_bytes(signature.counter))
         IN  IF MacVerify(hmac1, signature.signature)
             THEN [ok |-> TRUE, err |-> "none", as_ref |-> 1]
             ELSE [ok |-> FALSE, err |-> "InvalidSignature", as_ref |-> 1]
    ELSE [ok |-> FALSE, err |-> "UnknownId", id |-> id, as_ref |-> 0]

\* Variant: the message is fed to the MAC before the counter.
UsigHmacVerifyHalfVerifySwapped(self, id, message, signature) ==
    IF MapContains(self.other_hmacs, id)
    THEN LET hmac1 == MacUpdate(self.other_hmacs[id], message)
             hmac2 == MacUpdate(hmac1, to_be_bytes(signature.counter))
         IN  IF MacVerify(hmac2, signature.signature)
             THEN [ok |-> TRUE, err |-> "none", as_ref |-> 1]
             ELSE [ok |-> FALSE, err |-> "InvalidSignature", as_ref |-> 1]
    ELSE [ok |-> FALSE, err |-> "UnknownId", id |-> id, as_ref |-> 0]

UsigHmacVerifyHalfVerify(self, id, message, signature) ==
    IF MapContains(self.other_hmacs, id)
    THEN LET hmac1 == MacUpdate(self.other_hmacs[id], to_be_bytes(signature.counter))
             hmac2 == MacUpdate(hmac1, message)
         IN  IF MacVerify(hmac2, signature.signature)
             THEN [ok |-> TRUE, err |-> "none", as_ref |-> 1]
             ELSE [ok |-> FALSE, err |-> "InvalidSignature", as_ref |-> 1]
    ELSE [ok |-> FALSE, err |-> "UnknownId", id |-> id, as_ref |-> 0]

\* Variant: an id already present keeps its material (entry().or_insert).
UsigHmacVerifyHalfAddRemotePartyKeep(self, id, attestation) ==
    LET hmac == MacNewFromSlice(attestation)
    IN  IF hmac.ok
        THEN [self |-> [self EXCEPT !.other_hmacs =
                           IF MapContains(@, id) THEN @
                           ELSE MapInsert(@, id, hmac.val)],
              val  |-> TRUE]
        ELSE [self |-> self, val |-> FALSE]

\* Returns the updated verifier half and the boolean result.
\* Variant: a refused key removes what the id held.
UsigHmacVerifyHalfAddRemotePartyEvict(self, id, attestation) ==
    LET hmac == MacNewFromSlice(attestation)
    IN  IF hmac.ok
        THEN [self |-> [self EXCEPT !.other_hmacs = MapInsert(@, id, hmac.val)],
              val  |-> TRUE]
        ELSE [self |-> [self EXCEPT !.other_hmacs =
                           [j \in (DOMAIN @) \ {id} |-> @[j]]],
              val  |-> FALSE]

UsigHmacVerifyHalfAddRemoteParty(self, id, attestation) ==
    LET hmac == MacNewFromSlice(attestation)
    IN  IF hmac.ok
        THEN [self |-> [self EXCEPT !.other_hmacs = MapInsert(@, id, hmac.val)],
              val  |-> TRUE]
        ELSE [self |-> self, val |-> FALSE]

\* Variant: the new instance knows itself under id 0.
UsigHmacTryNewEnrolled(key) ==
    LET sign_half_new == UsigHmacSignHalfTryNew(key)
    IN  IF sign_half_new.ok
        THEN [ok |-> TRUE,
              val |-> [sign_half |-> sign_half_new.val,
                       verify_half |-> [other_hmacs |->
                           MapInsert(EmptyMap, 0, MacNewFromSlice(key).val)]]]
        ELSE [ok |-> FALSE, err |-> "InvalidLength"]

\* UsigHmac::try_new: a signer half from the key and an empty verifier
\* half.
UsigHmacTryNew(key) ==
    LET sign_half_new == UsigHmacSignHalfTryNew(key)
    IN  IF sign_half_new.ok
        THEN [ok |-> TRUE,
              val |-> [sign_half |-> sign_half_new.val,
                       verify_half |-> UsigHmacVerifyHalfDefault]]
        ELSE [ok |-> FALSE, err |-> "InvalidLength"]

\* ----------------------------------------------------- signature backend
UsigSignatureSignHalfNew(private_key, public_key) ==
    [counter |-> 0, private_key |-> private_key, public_key |-> public_key]

UsigSignatureVerifyHalfDefault == [other_keys |-> EmptyMap]

\* UsigSignature::new
UsigSignatureNew(private_key, public_key) ==
    [sign_half |-> UsigSignatureSignHalfNew(private_key, public_key),
     verify_half |-> UsigSignatureVerifyHalfDefault]

\* new_ed25519: a generated key pair and its own verifying key.  Every
\* signer of the signature backend is built from a well-formed pair; two
\* signers may be built from the same pair, as two MAC signers may be built
\* from the same key.
NewEd25519(kp) ==
    LET keypair == SigningKeyGenerate(kp)
    IN  UsigSignatureNew(keypair, VerifyingKey(keypair))

\* Variant: the envelope carries the counter after the increment.
UsigSignatureSignHalfSignPost(self, message) ==
    LET counter == AddAssign(self.counter, 1)
        data    == to_be_bytes(counter) \o message
    IN  [self |-> [self EXCEPT !.counter = counter],
         val  |-> [counter |-> counter,
                   signature |-> SignerSign(self.private_key, data)],
         as_ref |-> 1, err |-> "none"]

\* Variant: signing a non-empty message fails (try_sign), after the
\* counter has advanced.
UsigSignatureSignHalfSignFailing(self, message) ==
    LET counter == self.counter
        data    == to_be_bytes(counter) \o message
    IN  [self |-> [self EXCEPT !.counter = AddAssign(self.counter, 1)],
         val  |-> [counter |-> counter,
                   signature |-> SignerSign(self.private_key, data)],
         as_ref |-> 1,
         err |-> IF Len(message) > 0 THEN "SigningFailed" ELSE "none"]

UsigSignatureSignHalfSign(self, message) ==
    LET counter == self.counter
        data    == to_be_bytes(counter) \o message
    IN  [self |-> [self EXCEPT !.counter = AddAssign(self.counter, 1)],
         val  |-> [counter |-> counter,
                   signature |-> SignerSign(self.private_key, data)],
         as_ref |-> 1, err |-> "none"]

UsigSignatureSignHalfAttest(self) ==
    [self |-> self, val |-> self.public_key, err |-> "none"]

\* Variant: once the id is known, any enrolled key may vouch for the
\* envelope.
UsigSignatureVerifyHalfVerifyAnyKey(self, id, message, signature) ==
    IF MapContains(self.other_keys, id)
    THEN LET data == to_be_bytes(signature.counter) \o message
         IN  IF \E j \in DOMAIN self.other_keys :
                    VerifierVerify(self.other_keys[j], data, signature.signature)
             THEN [ok |-> TRUE, err |-> "none", as_ref |-> 1]
             ELSE [ok |-> FALSE, err |-> "InvalidSignature", as_ref |-> 1]
    ELSE [ok |-> FALSE, err |-> "UnknownId", id |-> id, as_ref |-> 0]

\* Variant: the key is looked up after the signature check, so that an
\* absent id is reported as a bad signature.
UsigSignatureVerifyHalfVerifyLate(self, id, message, signature) ==
    LET data == to_be_bytes(signature.counter) \o message
    IN  IF MapContains(self.other_keys, id)
           /\ VerifierVerify(self.other_keys[id], data, signature.signature)
        THEN [ok |-> TRUE, err |-> "none", as_ref |-> 1]
        ELSE [ok |-> FALSE, err |-> "InvalidSignature", as_ref |-> 1]

UsigSignatureVerifyHalfVerify(self, id, message, signature) ==
    IF MapContains(self.other_keys, id)
    THEN LET data == to_be_bytes(signature.counter) \o message
         IN  IF VerifierVerify(self.other_keys[id], data, signature.signature)
             THEN [ok |-> TRUE, err |-> "none", as_ref |-> 1]
             ELSE [ok |-> FALSE, err |-> "InvalidSignature", as_ref |-> 1]
    ELSE [ok |-> FALSE, err |-> "UnknownId", id |-> id, as_ref |-> 0]

\* Variant: the result of HashMap::insert decides the answer
\* (insert(..).is_none()).
UsigSignatureVerifyHalfAddRemotePartyFresh(self, id, attestation) ==
    [self |-> [self EXCEPT !.other_keys = MapInsert(@, id, attestation)],
     val  |-> ~MapContains(self.other_keys, id)]

\* Variant: the map is built anew around the entry.
UsigSignatureVerifyHalfAddRemotePartyOnly(self, id, attestation) ==
    [self |-> [self EXCEPT !.other_keys = MapInsert(EmptyMap, id, attestation)],
     val  |-> TRUE]

UsigSignatureVerifyHalfAddRemoteParty(self, id, attestation) ==
    [self |-> [self EXCEPT !.other_keys = MapInsert(@, id, attestation)],
     val  |-> TRUE]

\* --------------------------------------------------------- no-op backend
\* Signature::fake(counter): an envelope that no signer issued.
SignatureFake(counter) == [counter |-> counter]

UsigNoOpSignHalfDefault == [counter |-> 0]

\* Variant: the counter is read but never advanced.
UsigNoOpSignHalfSignStuck(self, message) ==
    [self |-> self, val |-> [counter |-> self.counter], as_ref |-> 1, err |-> "none"]

UsigNoOpSignHalfSign(self, message) ==
    LET counter == self.counter
    IN  [self |-> [self EXCEPT !.counter = AddAssign(self.counter, 1)],
         val  |-> [counter |-> counter],
         as_ref |-> 1, err |-> "none"]

\* The unit attestation ().
UsigNoOpSignHalfAttest(self) == [self |-> self, val |-> <<>>, err |-> "none"]

UsigNoOpVerifyHalfDefault == [ids |-> {}]

\* Variant: the set of ids is not consulted.
UsigNoOpVerifyHalfVerifyAlways(self, id, message, signature) ==
    [ok |-> TRUE, err |-> "none", as_ref |-> 1]

\* Variant: only the first counter is accepted.
UsigNoOpVerifyHalfVerifyFirst(self, id, message, signature) ==
    IF id \in self.ids
    THEN IF signature.counter = 0
         THEN [ok |-> TRUE, err |-> "none", as_ref |-> 1]
         ELSE [ok |-> FALSE, err |-> "InvalidSignature", as_ref |-> 1]
    ELSE [ok |-> FALSE, err |-> "UnknownId", id |-> id, as_ref |-> 0]

UsigNoOpVerifyHalfVerify(self, id, message, signature) ==
    IF id \in self.ids
    THEN [ok |-> TRUE, err |-> "none", as_ref |-> 1]
    ELSE [ok |-> FALSE, err |-> "UnknownId", id |-> id, as_ref |-> 0]

\* Variant: the id is accepted but not stored.
UsigNoOpVerifyHalfAddRemotePartyDrop(self, id, attestation) ==
    [self |-> self, val |-> TRUE]

UsigNoOpVerifyHalfAddRemoteParty(self, id, attestation) ==
    [self |-> [self EXCEPT !.ids = @ \cup {id}], val |-> TRUE]

\* UsigNoOp::default
UsigNoOpDefault ==
    [sign_half |-> UsigNoOpSignHalfDefault, verify_half |-> UsigNoOpVerifyHalfDefault]

\* ------------------------------------------- the Usig trait, by backend
SignHalfSign(b, self, message) ==
    CASE b = "hmac"      -> UsigHmacSignHalfSign(self, message)
      [] b = "signature" -> UsigSignatureSignHalfSign(self, message)
      [] b = "noop"      -> UsigNoOpSignHalfSign(self, message)

SignHalfAttest(b, self) ==
    CASE b = "hmac"      -> UsigHmacSignHalfAttest(self)
      [] b = "signature" -> UsigSignatureSignHalfAttest(self)
      [] b = "noop"      -> UsigNoOpSignHalfAttest(self)

VerifyHalfVerify(b, self, id, message, signature) ==
    CASE b = "hmac"      -> UsigHmacVerifyHalfVerify(self, id, message, signature)
      [] b = "signature" -> UsigSignatureVerifyHalfVerify(self, id, message, signature)
      [] b = "noop"      -> UsigNoOpVerifyHalfVerify(self, id, message, signature)

VerifyHalfAddRemoteParty(b, self, id, attestation) ==
    CASE b = "hmac"      -> UsigHmacVerifyHalfAddRemoteParty(self, id, attestation)
      [] b = "signature" -> UsigSignatureVerifyHalfAddRemoteParty(self, id, attestation)
      [] b = "noop"      -> UsigNoOpVerifyHalfAddRemoteParty(self, id, attestation)

VerifyHalfDefault(b) ==
    CASE b = "hmac"      -> UsigHmacVerifyHalfDefault
      [] b = "signature" -> UsigSignatureVerifyHalfDefault
      [] b = "noop"      -> UsigNoOpVerifyHalfDefault

\* ------------------- the composed USIG (impl Usig for UsigHmac,
\* UsigSignature and UsigNoOp): every operation is handed to a half
\* Variant: the advanced signer half is not stored back.
UsigSignStale(b, self, message) ==
    LET r == SignHalfSign(b, self.sign_half, message)
    IN  [self |-> self, val |-> r.val, as_ref |-> r.as_ref, err |-> r.err]

UsigSign(b, self, message) ==
    LET r == SignHalfSign(b, self.sign_half, message)
    IN  [self |-> [self EXCEPT !.sign_half = r.self], val |-> r.val,
         as_ref |-> r.as_ref, err |-> r.err]

\* Variant: producing the attestation enrols it under id 0.
UsigAttestEnrolling(b, self) ==
    LET r == SignHalfAttest(b, self.sign_half)
    IN  [self |-> [self EXCEPT !.sign_half = r.self,
                               !.verify_half =
                                   VerifyHalfAddRemoteParty(b, @, 0, r.val).self],
         val |-> r.val, err |-> r.err]

UsigAttest(b, self) ==
    LET r == SignHalfAttest(b, self.sign_half)
    IN  [self |-> [self EXCEPT !.sign_half = r.self], val |-> r.val, err |-> r.err]

UsigVerify(b, self, id, message, signature) ==
    VerifyHalfVerify(b, self.verify_half, id, message, signature)

UsigAddRemoteParty(b, self, id, attestation) ==
    LET r == VerifyHalfAddRemoteParty(b, self.verify_half, id, attestation)
    IN  [self |-> [self EXCEPT !.verify_half = r.self], val |-> r.val]

\* Variant: the signer half handed out starts counting again.
UsigSplitFresh(self) == <<[self.sign_half EXCEPT !.counter = 0], self.verify_half>>

\* split(self) -> (SignHalf, VerifyHalf)
UsigSplit(self) == <<self.sign_half, self.verify_half>>

\* What a fresh instance is built from: a caller-provided key, a generated
\* key pair, nothing.
Seeds(b) ==
    CASE b = "hmac"      -> Keys \cup MalformedKeys
      [] b = "signature" -> KeyPairs
      [] b = "noop"      -> {0}

\* Keys and key pairs are names that can be exchanged for one another, so
\* the runs in which the first instance is built from this one stand for
\* all runs.
FirstSeed(b) ==
    CASE b = "hmac"      -> <<0>>
      [] b = "signature" -> 1
      [] b = "noop"      -> 0

\* UsigHmac::try_new(key), new_ed25519() and UsigNoOp::default().
UsigNew(b, seed) ==
    CASE b = "hmac"      -> UsigHmacTryNew(seed)
      [] b = "signature" -> [ok |-> TRUE, val |-> NewEd25519(seed)]
      [] b = "noop"      -> [ok |-> TRUE, val |-> UsigNoOpDefault]

\* ------------------------------------------------------------ the system
\* The envelopes issued so far, with the signer and the message of each.
Pool ==
    {[from |-> u, signed |-> issued[u][k].message, signature |-> issued[u][k].signature] :
        <<u, k>> \in {p \in Usigs \X (1..MaxSigns) : p[2] <= Len(issued[p[1]])}}

TotalSigns == Len(issued[1]) + Len(issued[2])

\* The instance last enrolled under id (0: none).
PartyOf(map, id) == IF MapContains(map, id) THEN map[id] ELSE 0

\* The ids a verifier half holds material for.
EnrolledIds(b, self) ==
    CASE b = "hmac"      -> DOMAIN self.other_hmacs
      [] b = "signature" -> DOMAIN self.other_keys
      [] b = "noop"      -> self.ids

\* What a verifier half holds under id (a set: empty when it holds nothing).
EntryOf(b, self, id) ==
    CASE b = "hmac"      -> {self.other_hmacs[j] : j \in (DOMAIN self.other_hmacs) \cap {id}}
      [] b = "signature" -> {self.other_keys[j] : j \in (DOMAIN self.other_keys) \cap {id}}
      [] b = "noop"      -> {<<>> : j \in self.ids \cap {id}}

\* What add_remote_party stores for an attestation it accepts.
Material(b, attestation) ==
    CASE b = "hmac"      -> MacNewFromSlice(attestation).val
      [] b = "signature" -> attestation
      [] b = "noop"      -> <<>>

\* Two instances hold the same key material (their attestations are equal).
SameMaterial(a, b) ==
    SignHalfAttest(backend, sign_half[a]).val = SignHalfAttest(backend, sign_half[b]).val

\* The composed instance u.
Composed(u) == [sign_half |-> sign_half[u], verify_half |-> verify_half[u]]

\* The counters a forged envelope may carry: those a signer can have
\* issued in the run, whether it has or not.
ForgedCounters == 0..(MaxSigns - 1)

\* Fresh instances of one backend, each constructed twice from the same
\* seed: once kept composed, once split. A construction that fails
\* (UsigHmac::try_new on a key the MAC refuses) yields no instance.
Init ==
    /\ backend \in Backends
    /\ \E seed \in [Usigs -> Seeds(backend)] :
          /\ seed[1] = FirstSeed(backend)
          /\ \A u \in Usigs : UsigNew(backend, seed[u]).ok
          /\ sign_half = [u \in Usigs |-> UsigNew(backend, seed[u]).val.sign_half]
          /\ verify_half = [u \in Usigs |-> UsigNew(backend, seed[u]).val.verify_half]
          /\ halves = [u \in Usigs |-> UsigSplit(UsigNew(backend, seed[u]).val)]
    /\ issued = [u \in Usigs |-> <<>>]
    /\ enrolled = [u \in Usigs |-> EmptyMap]
    /\ ret = [op |-> "new"]

\* usig.sign(message)
SignCall(u, message) ==
    /\ LET r == UsigSign(backend, Composed(u), message)
           h == SignHalfSign(backend, halves[u][1], message)
       IN  /\ sign_half' = [sign_half EXCEPT ![u] = r.self.sign_half]
           /\ verify_half' = [verify_half EXCEPT ![u] = r.self.verify_half]
           /\ halves' = [halves EXCEPT ![u] = <<h.self, @[2]>>]
           /\ issued' = IF r.err = "none"
                         THEN [issued EXCEPT ![u] =
                                 Append(@, [message |-> message, signature |-> r.val])]
                         ELSE issued
           /\ ret' = [op |-> "sign", usig |-> u, message |-> message, val |-> r.val,
                      as_ref |-> r.as_ref, err |-> r.err, half_val |-> h.val]
    /\ UNCHANGED <<backend, enrolled>>

\* usig.sign(message), in a run of at most MaxSigns sign calls
Sign(u, message) ==
    /\ TotalSigns < MaxSigns
    /\ SignCall(u, message)

\* usig.attest()
Attest(u) ==
    LET r == UsigAttest(backend, Composed(u))
        h == SignHalfAttest(backend, halves[u][1])
    IN  /\ sign_half' = [sign_half EXCEPT ![u] = r.self.sign_half]
        /\ verify_half' = [verify_half EXCEPT ![u] = r.self.verify_half]
        /\ halves' = [halves EXCEPT ![u] = <<h.self, @[2]>>]
        /\ ret' = [op |-> "attest", usig |-> u, val |-> r.val, err |-> r.err,
                   half_val |-> h.val]
        /\ UNCHANGED <<backend, issued, enrolled>>

\* A variant that advances the counter of the composed instance.
VerifyCounting(v, id, message, e) ==
    /\ ret' = [op |-> "verify", usig |-> v, id |-> id, message |-> message,
               from |-> e.from, signed |-> e.signed, signature |-> e.signature,
               val |-> UsigVerify(backend, Composed(v), id, message, e.signature),
               half_val |-> VerifyHalfVerify(backend, halves[v][2], id, message,
                                             e.signature)]
    /\ sign_half' = [sign_half EXCEPT ![v].counter = AddAssign(@, 1)]
    /\ UNCHANGED <<backend, verify_half, halves, issued, enrolled>>

\* A variant in which an accepted envelope uses the enrollment up.
VerifyOnce(v, id, message, e) ==
    LET r == UsigVerify(backend, Composed(v), id, message, e.signature)
    IN  /\ ret' = [op |-> "verify", usig |-> v, id |-> id, message |-> message,
                   from |-> e.from, signed |-> e.signed, signature |-> e.signature,
                   val |-> r,
                   half_val |-> VerifyHalfVerify(backend, halves[v][2], id, message,
                                                 e.signature)]
        /\ verify_half' = IF r.ok
                          THEN [verify_half EXCEPT ![v] = VerifyHalfDefault(backend)]
                          ELSE verify_half
        /\ UNCHANGED <<backend, sign_half, halves, issued, enrolled>>

\* usig.verify(id, message, &signature), on an envelope some signer issued.
\* verify takes &self: the call has a result and nothing else.
Verify(v, id, message, e) ==
    /\ ret' = [op |-> "verify", usig |-> v, id |-> id, message |-> message,
               from |-> e.from, signed |-> e.signed, signature |-> e.signature,
               val |-> UsigVerify(backend, Composed(v), id, message, e.signature),
               half_val |-> VerifyHalfVerify(backend, halves[v][2], id, message,
                                             e.signature)]
    /\ UNCHANGED <<backend, sign_half, verify_half, halves, issued, enrolled>>

\* usig.verify(id, message, &signature) on an envelope that was not issued:
\* the body of the issued envelope e under another counter (Signature
\* derives Deserialize, so any pair of counter and body can be presented),
\* with the message e was issued for.
VerifyForged(v, id, e, counter) ==
    /\ counter # e.signature.counter
    /\ LET signature == [e.signature EXCEPT !.counter = counter]
       IN  ret' = [op |-> "verify_forged", usig |-> v, id |-> id,
                   message |-> e.signed, from |-> e.from, signed |-> e.signed,
                   signature |-> signature, issued_counter |-> e.signature.counter,
                   val |-> UsigVerify(backend, Composed(v), id, e.signed, signature),
                   half_val |-> VerifyHalfVerify(backend, halves[v][2], id, e.signed,
                                                 signature)]
    /\ UNCHANGED <<backend, sign_half, verify_half, halves, issued, enrolled>>

\* usig.add_remote_party(id, attestation), with the attestation of `party`
AddRemoteParty(v, id, party) ==
    LET attestation == SignHalfAttest(backend, sign_half[party]).val
        r == UsigAddRemoteParty(backend, Composed(v), id, attestation)
        h == VerifyHalfAddRemoteParty(backend, halves[v][2], id, attestation)
    IN  /\ sign_half' = [sign_half EXCEPT ![v] = r.self.sign_half]
        /\ verify_half' = [verify_half EXCEPT ![v] = r.self.verify_half]
        /\ halves' = [halves EXCEPT ![v] = <<@[1], h.self>>]
        /\ enrolled' = IF r.val
                       THEN [enrolled EXCEPT ![v] = MapInsert(@, id, party)]
                       ELSE enrolled
        /\ ret' = [op |-> "add_remote_party", usig |-> v, id |-> id,
                   party |-> party, attestation |-> attestation,
                   replaced |-> PartyOf(enrolled[v], id),
                   val |-> r.val, half_val |-> h.val]
        /\ UNCHANGED <<backend, issued>>

\* usig.add_remote_party(id, key) in the MAC backend, whose attestation is
\* a byte string of the caller: with a key that no instance holds because
\* the MAC refuses it.
AddRemotePartyKey(v, id, key) ==
    /\ backend = "hmac"
    /\ LET r == UsigAddRemoteParty(backend, Composed(v), id, key)
           h == VerifyHalfAddRemoteParty(backend, halves[v][2], id, key)
       IN  /\ sign_half' = [sign_half EXCEPT ![v] = r.self.sign_half]
           /\ verify_half' = [verify_half EXCEPT ![v] = r.self.verify_half]
           /\ halves' = [halves EXCEPT ![v] = <<@[1], h.self>>]
           /\ ret' = [op |-> "add_remote_party", usig |-> v, id |-> id,
                      party |-> 0, attestation |-> key,
                      replaced |-> PartyOf(enrolled[v], id),
                      val |-> r.val, half_val |-> h.val]
    /\ UNCHANGED <<backend, issued, enrolled>>

Next ==
    \/ \E u \in Usigs, message \in Messages : Sign(u, message)
    \/ \E u \in Usigs : Attest(u)
    \/ \E v \in Verifiers, id \in Ids, message \in Messages, e \in Pool :
          Verify(v, id, message, e)
    \/ \E v \in Verifiers, id \in Ids, party \in Usigs : AddRemoteParty(v, id, party)
    \/ \E v \in Verifiers, id \in Ids, key \in MalformedKeys :
          AddRemotePartyKey(v, id, key)

Spec == Init /\ [][Next]_vars

\* usig.sign(message) in a build with overflow checks (the default of the
\* dev and test profiles), when the counter holds the largest value:
\* `self.counter += 1` panics, the counter is not written and no envelope
\* is returned. In a build without the checks the addition wraps, which is
\* Sign.
SignPanic(u, message) ==
    /\ sign_half[u].counter + 1 >= U64Range
    /\ ret' = [op |-> "sign_panic", usig |-> u, message |-> message]
    /\ UNCHANGED <<backend, sign_half, verify_half, halves, issued, enrolled>>

\* The first instance signs the empty message until its counter has been
\* through every value and one sign call more has returned.
NextOverflow ==
    \/ \E message \in {<<>>} :
          Len(issued[1]) <= U64Range /\ SignCall(1, message)
    \/ \E message \in {<<>>} : SignPanic(1, message)

SpecOverflow == Init /\ [][NextOverflow]_vars

\* usig.split() on instance u as it is now: the halves it hands out. The
\* composed instance is kept in the state, as it was immediately before
\* the call, to compare the halves with.
Split(u) ==
    /\ ret' = [op |-> "split", usig |-> u, val |-> UsigSplit(Composed(u))]
    /\ UNCHANGED <<backend, sign_half, verify_half, halves, issued, enrolled>>

\* The number of sign calls of each signer in a run that bounds them per
\* signer.
MaxSignsEach == MaxSigns - 1

\* The calls of a run in which every signer signs up to MaxSignsEach
\* times, a verifier enrols signers, and instances are split.
NextSplit ==
    \/ \E u \in Usigs, message \in Messages :
          Len(issued[u]) < MaxSignsEach /\ SignCall(u, message)
    \/ \E v \in Verifiers, id \in Ids, party \in Usigs : AddRemoteParty(v, id, party)
    \/ \E u \in Usigs : Split(u)

SpecSplit == Init /\ [][NextSplit]_vars

\* Variant: the right-hand side is assigned, not added.
CountAddAssignSet(self, rhs) == Count(rhs)

\* impl AddAssign<u64> for Count: self.0 += rhs; the Count it leaves.
CountAddAssign(self, rhs) == Count(AddAssign(self[1], rhs))

\* The u64 values Count arithmetic is explored on.
CountValues == (0..MaxCount) \cup ((U64Range - 1 - MaxCount)..(U64Range - 1))

\* Count(n) + k and c += k on c = Count(n)
CountAddOp(n, k) ==
    /\ ret' = [op |-> "count_add", n |-> n, k |-> k,
               sum |-> CountAdd(Count(n), k),
               assigned |-> CountAddAssign(Count(n), k)]
    /\ UNCHANGED <<backend, sign_half, verify_half, halves, issued, enrolled>>

\* Count(n) < Count(m) and Count(n) == Count(m)
CountCmp(n, m) ==
    /\ ret' = [op |-> "count_cmp", n |-> n, m |-> m,
               lt |-> CountLt(Count(n), Count(m)),
               eq |-> CountEq(Count(n), Count(m))]
    /\ UNCHANGED <<backend, sign_half, verify_half, halves, issued, enrolled>>

\* signature.counter() on an issued envelope
CounterOf(e) ==
    /\ ret' = [op |-> "counter", signature |-> e.signature,
               val |-> SignatureCounter(e.signature)]
    /\ UNCHANGED <<backend, sign_half, verify_half, halves, issued, enrolled>>

\* The calls of a run in which counters are read and computed with.
NextCount ==
    \/ \E u \in Usigs, message \in Messages : Sign(u, message)
    \/ \E e \in Pool : CounterOf(e)
    \/ \E n \in CountValues, k \in 0..MaxCount : CountAddOp(n, k)
    \/ \E n \in CountValues, m \in CountValues : CountCmp(n, m)

SpecCount == Init /\ [][NextCount]_vars

\* The calls of a run in which envelopes are forged: signers sign, a
\* verifier enrols them and is handed issued envelopes under other counters.
NextForged ==
    \/ \E u \in Usigs, message \in Messages : Sign(u, message)
    \/ \E v \in Verifiers, id \in Ids, party \in Usigs : AddRemoteParty(v, id, party)
    \/ \E v \in Verifiers, id \in Ids, e \in Pool, counter \in ForgedCounters :
          VerifyForged(v, id, e, counter)

SpecForged == Init /\ [][NextForged]_vars

\* ================================================================ claims
\* C1: two consecutive sign calls on one signer return envelopes whose
\* counters differ by exactly 1 (later = earlier + 1), whatever the two
\* messages and whatever calls came in between.
C1_ConsecutiveCounters ==
    \A u \in Usigs : \A k \in 1..(Len(issued[u]) - 1) :
        issued[u][k + 1].signature.counter = issued[u][k].signature.counter + 1

\* A signer that signed two different messages in a row, the second just
\* now, on a run in which a party was enrolled.
C1_Witness ==
    /\ ret.op = "sign"
    /\ Len(issued[ret.usig]) >= 2
    /\ LET n == Len(issued[ret.usig])
       IN  issued[ret.usig][n - 1].message # issued[ret.usig][n].message
    /\ \E v \in Verifiers : DOMAIN enrolled[v] # {}

\* C2: the counters of all envelopes one signer issued are pairwise
\* distinct.
C2_DistinctCounters ==
    \A u \in Usigs : \A j, k \in 1..Len(issued[u]) :
        j # k => issued[u][j].signature.counter # issued[u][k].signature.counter

\* A signer that issued three envelopes, two of them for distinct messages.
C2_Witness ==
    \E u \in Usigs :
        /\ Len(issued[u]) >= 3
        /\ \E j, k \in 1..Len(issued[u]) : issued[u][j].message # issued[u][k].message

\* C3: the k-th sign on a fresh signer returns counter k-1 and the stored
\* counter equals the number of sign calls completed.
C3_CounterCountsSigns ==
    \A u \in Usigs :
        /\ sign_half[u].counter = Len(issued[u])
        /\ \A k \in 1..Len(issued[u]) : issued[u][k].signature.counter = k - 1

\* The first sign of a signer, returning counter 0, after the other signer
\* has already signed.
C3_Witness ==
    /\ ret.op = "sign"
    /\ Len(issued[ret.usig]) = 1
    /\ ret.val.counter = 0
    /\ \E u \in Usigs : u # ret.usig /\ Len(issued[u]) >= 1

\* C4: when the last accepted enrollment under id i carried the attestation
\* of signer S, verify(i, m, e) returns Ok for every envelope e that S issued
\* for m, the empty message included.
C4_RoundTrip ==
    (/\ ret.op = "verify"
     /\ PartyOf(enrolled[ret.usig], ret.id) = ret.from
     /\ ret.message = ret.signed)
    => ret.val.ok

\* The second envelope of an enrolled signer, issued for the empty message,
\* verified Ok.
C4_Witness ==
    /\ ret.op = "verify"
    /\ PartyOf(enrolled[ret.usig], ret.id) = ret.from
    /\ ret.message = ret.signed
    /\ ret.message = <<>>
    /\ ret.signature.counter = 1
    /\ ret.val.ok

\* C5: verify under an id the verifier's map does not contain returns
\* UnknownId carrying that id, whatever the message and the envelope.
C5_UnknownId ==
    (/\ ret.op = "verify"
     /\ ret.id \notin EnrolledIds(backend, verify_half[ret.usig]))
    => (~ret.val.ok /\ ret.val.err = "UnknownId" /\ ret.val.id = ret.id)

\* An envelope whose signer is enrolled under another id, verified with the
\* signed message under an id that is not enrolled.
C5_Witness ==
    /\ ret.op = "verify"
    /\ ret.id \notin EnrolledIds(backend, verify_half[ret.usig])
    /\ \E j \in Ids : PartyOf(enrolled[ret.usig], j) = ret.from
    /\ ret.message = ret.signed
    /\ ret.val.err = "UnknownId"

\* C6 (as stated): in every backend, the no-op one included, verifying an
\* envelope of an enrolled signer under a message other than the signed
\* one returns InvalidSignature.
C6_WrongMessageEveryBackend ==
    (/\ ret.op = "verify"
     /\ PartyOf(enrolled[ret.usig], ret.id) = ret.from
     /\ ret.message # ret.signed)
    => (~ret.val.ok /\ ret.val.err = "InvalidSignature")

\* C6 (amended): verifying an envelope of an enrolled signer under a
\* message other than the signed one returns InvalidSignature in the MAC
\* and signature backends, and Ok in the no-op backend.
C6_WrongMessage ==
    (/\ ret.op = "verify"
     /\ PartyOf(enrolled[ret.usig], ret.id) = ret.from
     /\ ret.message # ret.signed)
    => IF backend = "noop"
       THEN ret.val.ok
       ELSE ~ret.val.ok /\ ret.val.err = "InvalidSignature"

\* An envelope a MAC signer issued for the empty message, verified under a
\* non-empty one and rejected.
C6_Witness ==
    /\ backend = "hmac"
    /\ ret.op = "verify"
    /\ PartyOf(enrolled[ret.usig], ret.id) = ret.from
    /\ ret.signed = <<>>
    /\ ret.message # <<>>
    /\ ret.val.err = "InvalidSignature"

\* C7: in the MAC and signature backends, verify under an enrolled id
\* returns Ok exactly when the material enrolled under the id is the
\* material of the signer that produced the envelope and the message is the
\* one that signer authenticated with the envelope's counter; otherwise it
\* returns InvalidSignature.
C7_Binding ==
    (/\ ret.op = "verify"
     /\ backend # "noop"
     /\ ret.id \in DOMAIN enrolled[ret.usig])
    => /\ ret.val.ok <=> (/\ SameMaterial(enrolled[ret.usig][ret.id], ret.from)
                          /\ ret.message = ret.signed)
       /\ ~ret.val.ok => ret.val.err = "InvalidSignature"

\* An envelope verified with the signed message under an id that holds the
\* material of another signer, while its own signer is enrolled under the
\* other id: rejected.
C7_Witness ==
    /\ ret.op = "verify"
    /\ backend # "noop"
    /\ ret.id \in DOMAIN enrolled[ret.usig]
    /\ ~SameMaterial(enrolled[ret.usig][ret.id], ret.from)
    /\ \E j \in Ids : j # ret.id /\ PartyOf(enrolled[ret.usig], j) = ret.from
    /\ ret.message = ret.signed
    /\ ret.val.err = "InvalidSignature"

\* C8 (as stated): right after the attestation of Y has replaced that of
\* a distinct signer X under id i, every envelope of X is rejected under i
\* with InvalidSignature and every envelope of Y verifies Ok with its
\* message.
C8_OverwriteDistinctSigners ==
    (/\ ret.op = "add_remote_party"
     /\ ret.val
     /\ ret.replaced \notin {0, ret.party})
    => \A e \in Pool :
          LET r == VerifyHalfVerify(backend, verify_half[ret.usig], ret.id,
                                    e.signed, e.signature)
          IN  /\ e.from = ret.replaced => (~r.ok /\ r.err = "InvalidSignature")
              /\ e.from = ret.party => r.ok

\* C8 (amended): in the MAC and signature backends the verdict under an
\* enrolled id is at every moment the one of the most recent accepted
\* enrollment: an envelope verified with its message is Ok when its signer
\* holds the key material of the instance enrolled last, and
\* InvalidSignature when it holds different key material.
C8_OverwriteVerdicts ==
    backend # "noop" =>
        \A v \in Verifiers : \A id \in DOMAIN enrolled[v] : \A e \in Pool :
            LET r == VerifyHalfVerify(backend, verify_half[v], id, e.signed, e.signature)
            IN  IF SameMaterial(enrolled[v][id], e.from)
                THEN r.ok
                ELSE ~r.ok /\ r.err = "InvalidSignature"

\* The attestation of Y has just replaced the one of X under an id, X and Y
\* hold different keys and both have issued envelopes.
C8_Witness ==
    /\ backend # "noop"
    /\ ret.op = "add_remote_party"
    /\ ret.val
    /\ ret.replaced \notin {0, ret.party}
    /\ ~SameMaterial(ret.replaced, ret.party)
    /\ \E e \in Pool : e.from = ret.replaced
    /\ \E e \in Pool : e.from = ret.party

\* C9 (as stated): an envelope of a signer enrolled under id i, verified
\* under another id j, yields UnknownId(j) when j is not enrolled,
\* InvalidSignature when j holds the attestation of another party, and
\* never Ok.
C9_WrongIdNeverOk ==
    (/\ ret.op = "verify"
     /\ \E i \in Ids : i # ret.id /\ PartyOf(enrolled[ret.usig], i) = ret.from)
    => /\ ret.id \notin DOMAIN enrolled[ret.usig]
            => (ret.val.err = "UnknownId" /\ ret.val.id = ret.id)
       /\ (ret.id \in DOMAIN enrolled[ret.usig]
           /\ enrolled[ret.usig][ret.id] # ret.from)
            => ret.val.err = "InvalidSignature"
       /\ ~ret.val.ok

\* C9 (amended): such a verify yields UnknownId(j) when j is not enrolled
\* and, in the MAC and signature backends, InvalidSignature when j holds
\* key material other than the signer's; it yields Ok only when j is
\* enrolled and either holds the signer's own key material or the backend
\* is the no-op one.
C9_WrongId ==
    (/\ ret.op = "verify"
     /\ \E i \in Ids : i # ret.id /\ PartyOf(enrolled[ret.usig], i) = ret.from)
    => /\ ret.id \notin DOMAIN enrolled[ret.usig]
            => (ret.val.err = "UnknownId" /\ ret.val.id = ret.id)
       /\ (/\ ret.id \in DOMAIN enrolled[ret.usig]
           /\ backend # "noop"
           /\ ~SameMaterial(enrolled[ret.usig][ret.id], ret.from))
            => ret.val.err = "InvalidSignature"
       /\ ret.val.ok
            => /\ ret.id \in DOMAIN enrolled[ret.usig]
               /\ \/ backend = "noop"
                  \/ SameMaterial(enrolled[ret.usig][ret.id], ret.from)

\* The signer is enrolled under the other id only and the id of the call
\* is not enrolled at all: UnknownId for an envelope that would verify
\* under the right id.
C9_Witness ==
    /\ ret.op = "verify"
    /\ \E i \in Ids : i # ret.id /\ PartyOf(enrolled[ret.usig], i) = ret.from
    /\ ret.id \notin DOMAIN enrolled[ret.usig]
    /\ ret.message = ret.signed
    /\ ret.signature.counter >= 1
    /\ ret.val.err = "UnknownId"

\* C10: once add_remote_party has accepted the attestation of a signer
\* under an id, every envelope that signer issued before the call verifies
\* Ok under that id with its message.
C10_EnrollAfterSign ==
    (/\ ret.op = "add_remote_party"
     /\ ret.val)
    => \A e \in Pool :
          e.from = ret.party
            => VerifyHalfVerify(backend, verify_half[ret.usig], ret.id,
                                e.signed, e.signature).ok

\* The first enrollment a verifier ever accepted, of a signer that had
\* already signed.
C10_Witness ==
    /\ ret.op = "add_remote_party"
    /\ ret.val
    /\ DOMAIN enrolled[ret.usig] = {ret.id}
    /\ ret.replaced = 0
    /\ \E e \in Pool : e.from = ret.party

\* C11 (as stated): every sign call and every verify call resolves the
\* message to its byte view exactly once, whatever the backend and
\* whatever the call returns.
C11_SingleRead ==
    /\ ret.op = "sign" => ret.as_ref = 1
    /\ ret.op = "verify" => ret.val.as_ref = 1

\* C12: attest changes neither half of any instance (the counter
\* included), so every envelope still carries the number of sign calls
\* before it whatever attest calls were made, and no call changes the
\* attestation an instance returns.
C12_AttestFrame ==
    [][/\ ret'.op = "attest"
            => /\ sign_half' = sign_half
               /\ verify_half' = verify_half
               /\ halves' = halves
       /\ \A u \in Usigs :
            /\ SignHalfAttest(backend, sign_half'[u]).val
                 = SignHalfAttest(backend, sign_half[u]).val
            /\ \A k \in 1..Len(issued'[u]) : issued'[u][k].signature.counter = k - 1
      ]_vars

\* attest on a signer that has issued envelopes, its counter still the
\* number of sign calls.
C12_Witness ==
    /\ ret.op = "attest"
    /\ Len(issued[ret.usig]) >= 1
    /\ sign_half[ret.usig].counter = Len(issued[ret.usig])
    /\ ret.val = SignHalfAttest(backend, sign_half[ret.usig]).val

C14_Atomic ==
    [][ret'.op = "add_remote_party"
          => IF ret'.val
             THEN /\ EntryOf(backend, verify_half'[ret'.usig], ret'.id)
                       = {Material(backend, ret'.attestation)}
                  /\ \A j \in Ids \ {ret'.id} :
                        EntryOf(backend, verify_half'[ret'.usig], j)
                          = EntryOf(backend, verify_half[ret'.usig], j)
             ELSE verify_half' = verify_half
      ]_vars

\* A rejected enrollment under an id that holds material, which it still
\* holds.
C14_Witness ==
    /\ ret.op = "add_remote_party"
    /\ ~ret.val
    /\ ret.replaced # 0
    /\ ret.id \in EnrolledIds(backend, verify_half[ret.usig])

\* C15: every call returns on the composed instance what it returns on
\* the halves split from an identically constructed instance and driven
\* by the same calls.
C15_SplitEquivalence ==
    ret.op # "new" => ret.val = ret.half_val

\* A rejected verify of a later envelope, rejected the same way by the
\* split verifier half.
C15_Witness ==
    /\ ret.op = "verify"
    /\ ret.signature.counter >= 1
    /\ ret.val.err = "InvalidSignature"
    /\ ret.half_val.err = "InvalidSignature"

\* C16: a verifier half holds entries only for the ids of accepted
\* add_remote_party calls, so construction, sign and attest add none, and
\* verify on an instance without such a call returns UnknownId.
C16_NoSelfEnrollment ==
    /\ \A u \in Usigs : EnrolledIds(backend, verify_half[u]) = DOMAIN enrolled[u]
    /\ (ret.op = "verify" /\ DOMAIN enrolled[ret.usig] = {})
         => (~ret.val.ok /\ ret.val.err = "UnknownId" /\ ret.val.id = ret.id)

\* An instance without enrollments verifies its own envelope with the
\* signed message: UnknownId.
C16_Witness ==
    /\ ret.op = "verify"
    /\ ret.from = ret.usig
    /\ DOMAIN enrolled[ret.usig] = {}
    /\ ret.message = ret.signed
    /\ ret.val.err = "UnknownId"

\* C17: after an envelope of a signer verified Ok under an id, every
\* envelope of that signer (the same one again, earlier and later ones)
\* verifies Ok under that id with its message.
C17_NoFreshness ==
    (ret.op = "verify" /\ ret.val.ok)
    => \A e \in Pool :
          e.from = ret.from
            => VerifyHalfVerify(backend, verify_half[ret.usig], ret.id,
                                e.signed, e.signature).ok

\* The envelope with counter 1 was verified Ok while the signer's envelope
\* with counter 0 is still to be presented.
C17_Witness ==
    /\ backend # "noop"
    /\ ret.op = "verify"
    /\ ret.val.ok
    /\ ret.signature.counter = 1
    /\ \E e \in Pool : e.from = ret.from /\ e.signature.counter = 0

\* C18: in the MAC backend add_remote_party returns true exactly when the
\* MAC accepts the key, a refused key changes nothing, and the
\* attestation of a constructed signer is accepted.
C18_KeyAcceptance ==
    [][(backend = "hmac" /\ ret'.op = "add_remote_party")
          => /\ ret'.val <=> MacNewFromSlice(ret'.attestation).ok
             /\ ~ret'.val => verify_half' = verify_half
             /\ ret'.party # 0 => ret'.val
      ]_vars

\* A refused key on a verifier that has accepted the attestation of a
\* constructed signer.
C18_Witness ==
    /\ backend = "hmac"
    /\ ret.op = "add_remote_party"
    /\ ~ret.val
    /\ ret.attestation \in MalformedKeys
    /\ DOMAIN enrolled[ret.usig] # {}

\* C19: in the signature backend add_remote_party returns true and leaves
\* the given public key under the id.
C19_SignatureEnrollment ==
    (backend = "signature" /\ ret.op = "add_remote_party")
    => /\ ret.val
       /\ MapContains(verify_half[ret.usig].other_keys, ret.id)
       /\ verify_half[ret.usig].other_keys[ret.id] = ret.attestation

\* The public key of one signer replaces the different key of another.
C19_Witness ==
    /\ backend = "signature"
    /\ ret.op = "add_remote_party"
    /\ ret.replaced # 0
    /\ ~SameMaterial(ret.replaced, ret.party)
    /\ ret.val

\* C20: in the MAC and signature backends, the body of an envelope of an
\* enrolled signer presented under another counter, with the signed
\* message, is rejected with InvalidSignature.
C20_CounterBinding ==
    (/\ ret.op = "verify_forged"
     /\ backend # "noop"
     /\ PartyOf(enrolled[ret.usig], ret.id) = ret.from)
    => (~ret.val.ok /\ ret.val.err = "InvalidSignature")

\* The body presented under the counter of another envelope the same
\* signer issued for the same message.
C20_Witness ==
    /\ ret.op = "verify_forged"
    /\ backend # "noop"
    /\ PartyOf(enrolled[ret.usig], ret.id) = ret.from
    /\ \E e \in Pool : /\ e.from = ret.from
                       /\ e.signed = ret.signed
                       /\ e.signature.counter = ret.signature.counter
    /\ ret.val.err = "InvalidSignature"

\* C21 (as stated): every envelope a signer issues carries a counter
\* strictly greater than the counters of all envelopes it issued before,
\* also when the stored counter has reached the largest value.
C21_StrictlyIncreasing ==
    [][\A u \in Usigs :
          Len(issued'[u]) > Len(issued[u])
            => \A j \in 1..Len(issued[u]) :
                  issued[u][j].signature.counter
                    < issued'[u][Len(issued'[u])].signature.counter
      ]_vars

\* C22: while counters stay within their range, every sign and attest
\* call returns Ok, a sign call leaves the envelope it returns as the last
\* one issued, and the stored counter is the number of envelopes issued
\* (it never advances without an envelope).
C22_Infallible ==
    /\ ret.op \in {"sign", "attest"} => ret.err = "none"
    /\ ret.op = "sign"
         => /\ Len(issued[ret.usig]) >= 1
            /\ issued[ret.usig][Len(issued[ret.usig])]
                 = [message |-> ret.message, signature |-> ret.val]
    /\ \A u \in Usigs : sign_half[u].counter = Len(issued[u])

\* The second sign call of a signer, for a non-empty message, returned Ok.
C22_Witness ==
    /\ ret.op = "sign"
    /\ ret.err = "none"
    /\ ret.message # <<>>
    /\ Len(issued[ret.usig]) = 2
    /\ sign_half[ret.usig].counter = 2

\* C23: a verifier keeps an entry for every id an accepted
\* add_remote_party call named, whatever calls followed, so verify under
\* such an id never returns UnknownId.
C23_NeverShrinks ==
    /\ \A v \in Usigs : DOMAIN enrolled[v] \subseteq EnrolledIds(backend, verify_half[v])
    /\ (ret.op = "verify" /\ ret.id \in DOMAIN enrolled[ret.usig])
         => (ret.val.ok \/ ret.val.err # "UnknownId")

\* A verify under an id, rejected for its signature, on a verifier that
\* holds entries for both ids.
C23_Witness ==
    /\ ret.op = "verify"
    /\ DOMAIN enrolled[ret.usig] = Ids
    /\ EnrolledIds(backend, verify_half[ret.usig]) = Ids
    /\ ~ret.val.ok
    /\ ret.val.err = "InvalidSignature"

\* C24: sign and attest leave the verifier half of the instance as it
\* was, add_remote_party (accepted or not) and verify leave its signer
\* half as it was, and the stored counter is the number of sign calls.
C24_Independent ==
    [][/\ ret'.op \in {"sign", "attest"} => verify_half' = verify_half
       /\ ret'.op \in {"add_remote_party", "verify"} => sign_half' = sign_half
       /\ \A u \in Usigs : sign_half'[u].counter = Len(issued'[u])
      ]_vars

\* An enrollment was refused on an instance that has signed and holds an
\* entry.
C24_Witness ==
    /\ ret.op = "add_remote_party"
    /\ ~ret.val
    /\ sign_half[ret.usig].counter >= 1
    /\ DOMAIN enrolled[ret.usig] # {}

\* C25: the sign half split hands out issues, as its next envelope, the
\* counter that is the number of sign calls the composed instance
\* completed, and the verify half returns for every id, message and
\* envelope what the composed instance returned right before the split.
C25_SplitKeepsState ==
    ret.op = "split"
    => /\ \A message \in Messages :
            SignHalfSign(backend, ret.val[1], message).val.counter
              = Len(issued[ret.usig])
       /\ \A id \in Ids, message \in Messages, e \in Pool :
            VerifyHalfVerify(backend, ret.val[2], id, message, e.signature)
              = UsigVerify(backend, Composed(ret.usig), id, message, e.signature)

\* The split of an instance that has signed twice and enrolled a party
\* whose envelopes it accepts.
C25_Witness ==
    /\ ret.op = "split"
    /\ Len(issued[ret.usig]) >= 2
    /\ DOMAIN enrolled[ret.usig] # {}
    /\ \E id \in Ids, e \in Pool :
          VerifyHalfVerify(backend, ret.val[2], id, e.signed, e.signature).ok

\* C26: in the MAC backend, envelopes signed under the same key, counter
\* and message are equal whatever was signed before, so two signers built
\* from one key and given the same messages issue the same envelopes; and
\* verify returns the same verdict under any two ids that hold the same
\* key.
C26_Deterministic ==
    backend = "hmac"
    => /\ \A e1, e2 \in Pool :
            (/\ SameMaterial(e1.from, e2.from)
             /\ e1.signature.counter = e2.signature.counter
             /\ e1.signed = e2.signed)
            => e1.signature = e2.signature
       /\ SameMaterial(1, 2)
            => \A k \in 1..Len(issued[1]) :
                  (/\ k <= Len(issued[2])
                   /\ \A j \in 1..k : issued[1][j].message = issued[2][j].message)
                  => issued[1][k].signature = issued[2][k].signature
       /\ \A v \in Verifiers : \A i, j \in DOMAIN enrolled[v] :
            SameMaterial(enrolled[v][i], enrolled[v][j])
            => \A e \in Pool, message \in Messages :
                  LET a == VerifyHalfVerify(backend, verify_half[v], i, message, e.signature)
                      b == VerifyHalfVerify(backend, verify_half[v], j, message, e.signature)
                  IN  a.ok = b.ok /\ a.err = b.err

\* Two MAC signers with one key signed the same message under counter 1
\* after different first messages, and the verifier holds the key under
\* both ids.
C26_Witness ==
    /\ backend = "hmac"
    /\ SameMaterial(1, 2)
    /\ Len(issued[1]) >= 2
    /\ Len(issued[2]) >= 2
    /\ issued[1][1].message # issued[2][1].message
    /\ issued[1][2].message = issued[2][2].message
    /\ issued[1][2].signature = issued[2][2].signature
    /\ \A v \in Verifiers : DOMAIN enrolled[v] = Ids

\* C27: in the MAC backend, under an id that holds the key of an enrolled
\* signer, verify returns Ok for the envelopes of every signer built from
\* that key: those of another instance with the same key, and those of a
\* signer half rebuilt by try_new from the attestation, whose counter
\* starts at 0.
C27_KeyNotInstance ==
    backend = "hmac"
    => \A v \in Verifiers : \A id \in DOMAIN enrolled[v] :
          LET attestation == SignHalfAttest(backend, sign_half[enrolled[v][id]]).val
              rebuilt     == UsigHmacSignHalfTryNew(attestation)
          IN  /\ rebuilt.ok
              /\ \A message \in Messages :
                    LET r == UsigHmacSignHalfSign(rebuilt.val, message)
                    IN  /\ r.val.counter = 0
                        /\ VerifyHalfVerify(backend, verify_half[v], id, message,
                                            r.val).ok
              /\ \A e \in Pool :
                    SameMaterial(e.from, enrolled[v][id])
                    => VerifyHalfVerify(backend, verify_half[v], id, e.signed,
                                        e.signature).ok

\* An envelope of a signer other than the enrolled one, built from the
\* same key, was accepted while the enrolled signer's counter is past 0.
C27_Witness ==
    /\ backend = "hmac"
    /\ ret.op = "verify"
    /\ ret.val.ok
    /\ PartyOf(enrolled[ret.usig], ret.id) \notin {0, ret.from}
    /\ SameMaterial(PartyOf(enrolled[ret.usig], ret.id), ret.from)
    /\ sign_half[PartyOf(enrolled[ret.usig], ret.id)].counter >= 1

\* C28: in the no-op backend verify returns Ok when the id is enrolled and
\* UnknownId(id) when it is not, for every message and every envelope,
\* issued by a signer or made by Signature::fake; add_remote_party returns
\* true, and repeating it for an enrolled id changes nothing.
C28_NoOpVerify ==
    backend = "noop"
    => /\ \A v \in Verifiers, id \in Ids, message \in Messages,
             counter \in ForgedCounters :
            LET r == VerifyHalfVerify(backend, verify_half[v], id, message,
                                      SignatureFake(counter))
            IN  IF id \in DOMAIN enrolled[v]
                THEN r.ok
                ELSE ~r.ok /\ r.err = "UnknownId" /\ r.id = id
       /\ ret.op = "verify_forged"
            => /\ ret.val.ok <=> ret.id \in DOMAIN enrolled[ret.usig]
               /\ ~ret.val.ok => (ret.val.err = "UnknownId" /\ ret.val.id = ret.id)
       /\ ret.op = "add_remote_party"
            => /\ ret.val
               /\ ret.id \in DOMAIN enrolled[ret.usig]
               /\ LET again == VerifyHalfAddRemoteParty(backend, verify_half[ret.usig],
                                                        ret.id, ret.attestation)
                  IN  again.val /\ again.self = verify_half[ret.usig]

\* An envelope with a counter its signer never issued, as Signature::fake
\* makes it, accepted under an enrolled id.
C28_Witness ==
    /\ backend = "noop"
    /\ ret.op = "verify_forged"
    /\ ret.val.ok
    /\ ret.signature.counter >= Len(issued[ret.from])
    /\ ret.signature = SignatureFake(ret.signature.counter)

\* C29: when n + k fits a u64, Count(n) + k and c += k on c = Count(n)
\* give the Count of n + k; counter() of an envelope is the Count of its
\* counter field; Count values are ordered and equal as their contents.
C29_CountArithmetic ==
    /\ (ret.op = "count_add" /\ ret.n + ret.k < U64Range)
         => (ret.sum = <<ret.n + ret.k>> /\ ret.assigned = <<ret.n + ret.k>>)
    /\ ret.op = "count_cmp"
         => /\ ret.lt <=> ret.n < ret.m
            /\ ret.eq <=> ret.n = ret.m
    /\ ret.op = "counter" => ret.val = <<ret.signature.counter>>

\* A positive addend that takes a Count to the largest u64.
C29_Witness ==
    /\ ret.op = "count_add"
    /\ ret.k >= 1
    /\ ret.n + ret.k = U64Range - 1
    /\ ret.sum = <<U64Range - 1>>
    /\ ret.assigned = ret.sum

====
